---- MODULE Spec2Model ----
(***************************************************************************)
(* Model of monitor.py (web-monitor-buoy): one invocation loads the hash   *)
(* store, fetches every monitored URL in turn, hashes and classifies the   *)
(* response, saves the new hashes, and writes the XML report.              *)
(*                                                                         *)
(* Python dicts are modelled as insertion-ordered sequences of <<key,      *)
(* value>> pairs; the hash-store file holds the token sequence json.dump   *)
(* writes, and json.load parses it back.  The wall-clock timestamp fields  *)
(* of the events and of the report are left out: no operation reads them.  *)
(***************************************************************************)
EXTENDS Integers, Sequences, FiniteSets, TLC

\* ------------------------------------------------------------------ bounds

\* Number of distinct response bodies the remote sites may serve.
NumBodies == 2

BodyTable == <<"hello", "world", "", "hello!">>

Bodies == {BodyTable[k] : k \in 1..NumBodies}

\* ----------------------------------------------------------- configuration

MONITORED_URLS ==
    << [name |-> "Google_Homepage",    url |-> "https://www.google.com"],
       [name |-> "UWM Press Releases", url |-> "https://www.uwm.com/press-releases"] >>

Names == {MONITORED_URLS[k].name : k \in 1..Len(MONITORED_URLS)}

\* The invocations of the program (processes) that may exist.
Procs == {1, 2}

\* The RequestExceptions a fetch raises: "Timeout" from requests.get (a timeout
\* or a connection error), "HTTPError" from raise_for_status (a bad status).
RequestExceptions == {"Timeout", "HTTPError"}

\* ------------------------------------------------------------------ hashing

\* hashlib.md5(content).hexdigest() on the bodies of BodyTable.
md5(content) ==
    CASE content = "hello"  -> "5d41402abc4b2a76b9719d911017c592"
      [] content = "world"  -> "7d793037a0760186574b0282f2f435e7"
      [] content = ""       -> "d41d8cd98f00b204e9800998ecf8427e"
      [] content = "hello!" -> "5a8dd3ad0756a93ded72b823b19dd877"

\* digest[:8]
Trunc8(digest) ==
    CASE digest = "5d41402abc4b2a76b9719d911017c592" -> "5d41402a"
      [] digest = "7d793037a0760186574b0282f2f435e7" -> "7d793037"
      [] digest = "d41d8cd98f00b204e9800998ecf8427e" -> "d41d8cd9"
      [] digest = "5a8dd3ad0756a93ded72b823b19dd877" -> "5a8dd3ad"

\* --------------------------------------------------------------- dictionaries

\* name in d
Has(d, k) == \E j \in 1..Len(d) : d[j][1] = k

\* d[name]
Get(d, k) == d[CHOOSE j \in 1..Len(d) : d[j][1] = k][2]

\* d[name] = v
Put(d, k, v) ==
    IF Has(d, k)
    THEN [j \in 1..Len(d) |-> IF d[j][1] = k THEN <<k, v>> ELSE d[j]]
    ELSE Append(d, <<k, v>>)

\* d.items() as a set: dict equality ignores order.
Items(d) == {d[j] : j \in 1..Len(d)}

Keys(d) == {d[j][1] : j \in 1..Len(d)}

\* ------------------------------------------------------------------- JSON

LBRACE == <<"punct", "{">>
RBRACE == <<"punct", "}">>
COLON  == <<"punct", ":">>
COMMA  == <<"punct", ",">>
Str(s) == <<"string", s>>
IsStr(t) == t[1] = "string"

RECURSIVE Members(_)
Members(d) ==
    IF d = <<>> THEN <<>>
    ELSE <<Str(d[1][1]), COLON, Str(d[1][2])>>
         \o (IF Len(d) > 1 THEN <<COMMA>> \o Members(Tail(d)) ELSE <<>>)

\* A faulty variant of json_dump: the last member is not written.
json_dump_droplast(d) ==
    <<LBRACE>> \o Members(IF d = <<>> THEN d ELSE SubSeq(d, 1, Len(d) - 1)) \o <<RBRACE>>

\* json.dump(d, f): the tokens written, members in insertion order.
json_dump(d) == <<LBRACE>> \o Members(d) \o <<RBRACE>>

JSONDecodeError == [ok |-> FALSE, value |-> <<>>]

RECURSIVE ParseMembers(_, _, _)
ParseMembers(text, pos, acc) ==
    IF pos + 3 > Len(text) THEN JSONDecodeError
    ELSE IF ~(IsStr(text[pos]) /\ text[pos + 1] = COLON /\ IsStr(text[pos + 2]))
    THEN JSONDecodeError
    ELSE LET acc2 == Put(acc, text[pos][2], text[pos + 2][2])
         IN  IF text[pos + 3] = RBRACE
             THEN IF pos + 3 = Len(text)
                  THEN [ok |-> TRUE, value |-> acc2]
                  ELSE JSONDecodeError
             ELSE IF text[pos + 3] = COMMA
             THEN ParseMembers(text, pos + 4, acc2)
             ELSE JSONDecodeError

\* A faulty variant of json_load: a text that ends before the closing brace is
\* accepted, with the members read so far.
json_load_lenient(text) ==
    IF Len(text) < 1 \/ text[1] # LBRACE THEN JSONDecodeError
    ELSE LET RECURSIVE Read(_, _)
             Read(pos, acc) ==
                 IF pos + 2 > Len(text) THEN acc
                 ELSE Read(pos + 4, Put(acc, text[pos][2], text[pos + 2][2]))
         IN  [ok |-> TRUE, value |-> Read(2, <<>>)]

\* json.load(f): the object parsed from the tokens, or JSONDecodeError.
json_load(text) ==
    IF Len(text) < 2 \/ text[1] # LBRACE THEN JSONDecodeError
    ELSE IF text[2] = RBRACE
    THEN IF Len(text) = 2 THEN [ok |-> TRUE, value |-> <<>>] ELSE JSONDecodeError
    ELSE ParseMembers(text, 2, <<>>)

\* ------------------------------------------------------------------- state

VARIABLES
    hashFile,          \* url_hashes.json: [exists, text]
    xmlFile,           \* monitoring_report.xml: [exists, status, items]
    pc,                \* per invocation: position in the program
    last_hashes,       \* per invocation: the loaded dict
    current_hashes,    \* per invocation: the dict built in this run
    changes_detected,  \* per invocation: the list of events
    idx,               \* per invocation: index of the loop over MONITORED_URLS
    response,          \* per invocation: outcome of requests.get for the current target
    storeAtStart,      \* history: hashFile when the invocation started
    outcome,           \* history: classification of each target in this run
    fetched,           \* history: body fetched for each target in this run
    attempts,          \* history: number of requests made for each target in this run
    prev               \* history: record of the last invocation that reached its save

vars == <<hashFile, xmlFile, pc, last_hashes, current_hashes, changes_detected,
          idx, response, storeAtStart, outcome, fetched, attempts, prev>>

NoFile == [exists |-> FALSE, text |-> <<>>]
NoReport == [exists |-> FALSE, status |-> "", items |-> <<>>]
NoResponse == [ok |-> FALSE, content |-> "", exc |-> ""]
NoBody == "<no body>"
NoOutcome == "-"

\* The mapping a load of file content f yields (lines 20-26).
Loaded(f) ==
    IF f.exists /\ json_load(f.text).ok THEN json_load(f.text).value ELSE <<>>

\* The record of an invocation of which nothing is kept but how it ended.
NoRun(how) ==
    [ended |-> how, loaded |-> <<>>, hashes |-> <<>>,
     outcome |-> [n \in Names |-> NoOutcome],
     fetched |-> [n \in Names |-> NoBody],
     unreported |-> FALSE]

Init ==
    /\ hashFile = NoFile
    /\ xmlFile = NoReport
    /\ pc = [p \in Procs |-> "idle"]
    /\ last_hashes = [p \in Procs |-> <<>>]
    /\ current_hashes = [p \in Procs |-> <<>>]
    /\ changes_detected = [p \in Procs |-> <<>>]
    /\ idx = [p \in Procs |-> 1]
    /\ response = [p \in Procs |-> NoResponse]
    /\ storeAtStart = [p \in Procs |-> NoFile]
    /\ outcome = [p \in Procs |-> [n \in Names |-> NoOutcome]]
    /\ fetched = [p \in Procs |-> [n \in Names |-> NoBody]]
    /\ attempts = [p \in Procs |-> [n \in Names |-> 0]]
    /\ prev = NoRun("none")

\* ------------------------------------------------------------ classification

StatusChanged == "Content Changed"
StatusInitial == "Initial Check (No history recorded)"
ErrorStatus(e) == "Error: " \o e

\* A faulty variant of Classification: the comparison of the digests is inverted.
Classification_inverted(last, name, content_hash) ==
    IF Has(last, name) /\ Get(last, name) = content_hash THEN "Changed"
    ELSE IF ~Has(last, name) THEN "Initial"
    ELSE "Unchanged"

\* A faulty variant of Classification: a target with history is always Changed.
Classification_always(last, name, content_hash) ==
    IF Has(last, name) THEN "Changed" ELSE "Initial"

\* The branch taken by the if / elif / else of step 4.
Classification(last, name, content_hash) ==
    IF Has(last, name) /\ Get(last, name) # content_hash THEN "Changed"
    ELSE IF ~Has(last, name) THEN "Initial"
    ELSE "Unchanged"

ChangedEvent(t, old, new) ==
    [name |-> t.name, url |-> t.url, status |-> StatusChanged,
     hash_change |-> "Old: " \o Trunc8(old) \o "... -> New: " \o Trunc8(new) \o "..."]

InitialEvent(t, new) ==
    [name |-> t.name, url |-> t.url, status |-> StatusInitial,
     hash_change |-> "Initial Hash: " \o Trunc8(new) \o "..."]

ErrorEvent(t, e) ==
    [name |-> t.name, url |-> t.url, status |-> ErrorStatus(e), hash_change |-> "N/A"]

\* -------------------------------------------------------------------- report

ChangeItem(change) ==
    [Name |-> change.name, URL |-> change.url, Status |-> change.status,
     HashDetails |-> change.hash_change]

\* A faulty variant of StatusText: error events are left out of the count.
StatusText_noerrors(changes) ==
    LET counted == SelectSeq(changes, LAMBDA c : c.status \in {StatusChanged, StatusInitial})
    IN  IF counted # <<>>
        THEN ToString(Len(counted)) \o " Change(s) or Initial Check(s) Detected."
        ELSE "No changes detected since the last run."

StatusText(changes) ==
    IF changes # <<>>
    THEN ToString(Len(changes)) \o " Change(s) or Initial Check(s) Detected."
    ELSE "No changes detected since the last run."

\* A faulty variant of generate_xml_report: each ChangeItem is inserted as the
\* first child instead of appended, so the items come out in reverse.
generate_xml_report_reversed(changes) ==
    [exists |-> TRUE,
     status |-> StatusText(changes),
     items  |-> [j \in 1..Len(changes) |-> ChangeItem(changes[Len(changes) + 1 - j])]]

\* Lines 85-109: the document written: root status, one ChangeItem per event.
generate_xml_report(changes) ==
    [exists |-> TRUE,
     status |-> StatusText(changes),
     items  |-> [j \in 1..Len(changes) |-> ChangeItem(changes[j])]]

\* -------------------------------------------------------------------- actions

\* Where invocation p is with respect to its save of the store (lines 78-79).
Phase(p) ==
    IF pc[p] \in {"fetch", "hash", "except", "sleep", "save"} THEN "before_save"
    ELSE IF pc[p] = "dump" THEN "saving"
    ELSE IF pc[p] \in {"report", "done"} THEN "after_save"
    ELSE "none"

\* The record kept when invocation p ends at this step.  An invocation that
\* ends before its save has touched no file: the record stays that of the last
\* invocation that reached its save.  One that ran to its end leaves what it
\* loaded, fetched and classified; one that ended after its save but without
\* its report leaves what it fetched and saved and, when the report write
\* failed, whether it had Initial or Changed events to report; one that ended
\* inside its save leaves only how it ended.
EndRecord(p, how) ==
    IF Phase(p) = "before_save" THEN prev
    ELSE IF how = "completed"
    THEN [ended |-> how, loaded |-> last_hashes[p], hashes |-> current_hashes[p],
          outcome |-> outcome[p], fetched |-> fetched[p], unreported |-> FALSE]
    ELSE IF Phase(p) = "after_save"
    THEN [NoRun(how) EXCEPT !.hashes = current_hashes[p], !.fetched = fetched[p],
                            !.unreported = /\ how = "report_error"
                                           /\ \E n \in Names :
                                                 outcome[p][n] \in {"Initial", "Changed"}]
    ELSE NoRun(how)

\* The process of invocation p is gone: its memory with it.
Terminate(p) ==
    /\ pc' = [pc EXCEPT ![p] = "idle"]
    /\ last_hashes' = [last_hashes EXCEPT ![p] = <<>>]
    /\ current_hashes' = [current_hashes EXCEPT ![p] = <<>>]
    /\ changes_detected' = [changes_detected EXCEPT ![p] = <<>>]
    /\ idx' = [idx EXCEPT ![p] = 1]
    /\ response' = [response EXCEPT ![p] = NoResponse]
    /\ storeAtStart' = [storeAtStart EXCEPT ![p] = NoFile]
    /\ outcome' = [outcome EXCEPT ![p] = [n \in Names |-> NoOutcome]]
    /\ fetched' = [fetched EXCEPT ![p] = [n \in Names |-> NoBody]]
    /\ attempts' = [attempts EXCEPT ![p] = [n \in Names |-> 0]]

\* After the loop body of one target: the next target, or the save.
AfterLoad == IF Len(MONITORED_URLS) >= 1 THEN "fetch" ELSE "save"

\* Lines 20-29: the invocation starts and loads the last known hashes.
Load(p) ==
    /\ pc[p] = "idle"
    /\ last_hashes' = [last_hashes EXCEPT ![p] = Loaded(hashFile)]
    /\ current_hashes' = [current_hashes EXCEPT ![p] = <<>>]
    /\ changes_detected' = [changes_detected EXCEPT ![p] = <<>>]
    /\ idx' = [idx EXCEPT ![p] = 1]
    /\ storeAtStart' = [storeAtStart EXCEPT ![p] = hashFile]
    /\ pc' = [pc EXCEPT ![p] = AfterLoad]
    /\ UNCHANGED <<hashFile, xmlFile, response, outcome, fetched, attempts, prev>>

\* Lines 34-35: requests.get and raise_for_status; the site answers with some
\* body, or the request raises.
Fetch(p) ==
    /\ pc[p] = "fetch"
    /\ \/ \E b \in Bodies :
            /\ response' = [response EXCEPT ![p] = [ok |-> TRUE, content |-> b, exc |-> ""]]
            /\ pc' = [pc EXCEPT ![p] = "hash"]
       \/ \E e \in RequestExceptions :
            /\ response' = [response EXCEPT ![p] = [ok |-> FALSE, content |-> "", exc |-> e]]
            /\ pc' = [pc EXCEPT ![p] = "except"]
    /\ attempts' = [attempts EXCEPT ![p][MONITORED_URLS[idx[p]].name] = @ + 1]
    /\ UNCHANGED <<hashFile, xmlFile, last_hashes, current_hashes, changes_detected,
                   idx, storeAtStart, outcome, fetched, prev>>

\* Lines 38-61: hash the content, record it, compare with the last hash.
Classify(p) ==
    /\ pc[p] = "hash"
    /\ LET t == MONITORED_URLS[idx[p]]
           content_hash == md5(response[p].content)
           c == Classification(last_hashes[p], t.name, content_hash)
       IN  /\ current_hashes' =
                 [current_hashes EXCEPT ![p] = Put(@, t.name, content_hash)]
           /\ changes_detected' =
                 [changes_detected EXCEPT ![p] =
                     IF c = "Changed"
                     THEN Append(@, ChangedEvent(t, Get(last_hashes[p], t.name), content_hash))
                     ELSE IF c = "Initial"
                     THEN Append(@, InitialEvent(t, content_hash))
                     ELSE @]
           /\ outcome' = [outcome EXCEPT ![p][t.name] = c]
           /\ fetched' = [fetched EXCEPT ![p][t.name] = response[p].content]
    /\ pc' = [pc EXCEPT ![p] = "sleep"]
    /\ UNCHANGED <<hashFile, xmlFile, last_hashes, idx, response, storeAtStart, attempts, prev>>

\* A faulty variant of AfterError: the request is made again after a failure.
AfterError_retry == "fetch"

\* A faulty variant of AfterError: the except clause leaves the loop.
AfterError_abort == "save"

\* Where the except clause continues: the delay at the end of the loop body.
AfterError == "sleep"

\* Lines 63-72: a RequestException is recorded as an event.
HandleError(p) ==
    /\ pc[p] = "except"
    /\ LET t == MONITORED_URLS[idx[p]]
       IN  /\ changes_detected' =
                 [changes_detected EXCEPT ![p] = Append(@, ErrorEvent(t, response[p].exc))]
           /\ outcome' = [outcome EXCEPT ![p][t.name] = "Error"]
    /\ pc' = [pc EXCEPT ![p] = AfterError]
    /\ UNCHANGED <<hashFile, xmlFile, last_hashes, current_hashes, idx, response,
                   storeAtStart, fetched, attempts, prev>>

\* A faulty variant of Sleep: the save of lines 78-79 is indented into the loop body.
Sleep_saving(p) ==
    /\ pc[p] = "sleep"
    /\ idx' = [idx EXCEPT ![p] = @ + 1]
    /\ pc' = [pc EXCEPT ![p] = IF idx[p] < Len(MONITORED_URLS) THEN "fetch" ELSE "save"]
    /\ response' = [response EXCEPT ![p] = NoResponse]
    /\ hashFile' = [exists |-> TRUE, text |-> json_dump(current_hashes[p])]
    /\ UNCHANGED <<xmlFile, last_hashes, current_hashes, changes_detected,
                   storeAtStart, outcome, fetched, attempts, prev>>

\* Line 75 and the loop header: the delay, then the next target or the save.
Sleep(p) ==
    /\ pc[p] = "sleep"
    /\ idx' = [idx EXCEPT ![p] = @ + 1]
    /\ pc' = [pc EXCEPT ![p] = IF idx[p] < Len(MONITORED_URLS) THEN "fetch" ELSE "save"]
    /\ response' = [response EXCEPT ![p] = NoResponse]
    /\ UNCHANGED <<hashFile, xmlFile, last_hashes, current_hashes, changes_detected,
                   storeAtStart, outcome, fetched, attempts, prev>>

\* Line 78: open(HASH_STORAGE_FILE, 'w') creates or truncates the file.
SaveOpen(p) ==
    /\ pc[p] = "save"
    /\ hashFile' = [exists |-> TRUE, text |-> <<>>]
    /\ pc' = [pc EXCEPT ![p] = "dump"]
    /\ UNCHANGED <<xmlFile, last_hashes, current_hashes, changes_detected, idx,
                   response, storeAtStart, outcome, fetched, attempts, prev>>

\* A faulty variant of SavedMapping: the loaded hashes are written back.
SavedMapping_last(p) == last_hashes[p]

\* A faulty variant of SavedMapping: the loaded hashes are carried over and
\* updated with the current ones.
SavedMapping_merged(p) ==
    LET RECURSIVE Merge(_, _)
        Merge(d, e) == IF e = <<>> THEN d ELSE Merge(Put(d, e[1][1], e[1][2]), Tail(e))
    IN  Merge(last_hashes[p], current_hashes[p])

\* The dict that line 79 dumps.
SavedMapping(p) == current_hashes[p]

\* Bytes of one token in the text json.dump(d, f, indent=4) writes: a string
\* in quotes, ": " after a key, "," and the newline and indent of the member
\* that follows, one byte for a brace or a leftover byte.
TokenBytes(t) ==
    IF IsStr(t) THEN Len(t[2]) + 2
    ELSE IF t = COLON THEN 2
    ELSE IF t = COMMA THEN 6
    ELSE 1

RECURSIVE SumBytes(_)
SumBytes(text) == IF text = <<>> THEN 0 ELSE TokenBytes(Head(text)) + SumBytes(Tail(text))

\* Size of the file in bytes: the tokens, the newline and indent before the
\* first member, and the newline before the closing brace of a non-empty object.
ByteLen(text) ==
    SumBytes(text)
    + (IF Len(text) > 1 /\ IsStr(text[2]) THEN 5 ELSE 0)
    + (IF \E k \in 2..Len(text) : text[k] = RBRACE /\ IsStr(text[k - 1]) THEN 1 ELSE 0)

\* Bytes of an earlier content that a shorter write does not cover.
Residue(k) == [j \in 1..k |-> <<"residue", "?">>]

\* A faulty variant of WriteAtStart: the write replaces the whole content, as
\* if the file were truncated again when it is written.
WriteAtStart_replacing(old, new) == new

\* Line 79 at the close of the with-block: the buffered text is written at
\* offset 0 of the descriptor opened at line 78; the file keeps what another
\* descriptor wrote beyond the end of this text.
WriteAtStart(old, new) ==
    IF ByteLen(old) > ByteLen(new)
    THEN new \o Residue(ByteLen(old) - ByteLen(new))
    ELSE new

\* Line 79: json.dump writes the dict; the with-block closes the file.
SaveDump(p) ==
    /\ pc[p] = "dump"
    /\ hashFile' = [exists |-> TRUE,
                    text |-> WriteAtStart(hashFile.text, json_dump(SavedMapping(p)))]
    /\ pc' = [pc EXCEPT ![p] = "report"]
    /\ UNCHANGED <<xmlFile, last_hashes, current_hashes, changes_detected, idx,
                   response, storeAtStart, outcome, fetched, attempts, prev>>

\* A faulty variant of SaveError: the error is swallowed where it is raised, so
\* the report of the run is still written before the invocation ends.
SaveError_reporting(p) ==
    /\ pc[p] = "save"
    /\ prev' = EndRecord(p, "save_error")
    /\ Terminate(p)
    /\ xmlFile' = generate_xml_report(changes_detected[p])
    /\ UNCHANGED hashFile

\* Line 78 raising OSError: nothing catches it, the invocation ends.
SaveError(p) ==
    /\ pc[p] = "save"
    /\ prev' = EndRecord(p, "save_error")
    /\ Terminate(p)
    /\ UNCHANGED <<hashFile, xmlFile>>

\* Lines 81, 116: the list is returned and generate_xml_report writes it.
Report(p) ==
    /\ pc[p] = "report"
    /\ xmlFile' = generate_xml_report(changes_detected[p])
    /\ pc' = [pc EXCEPT ![p] = "done"]
    /\ UNCHANGED <<hashFile, last_hashes, current_hashes, changes_detected, idx,
                   response, storeAtStart, outcome, fetched, attempts, prev>>

\* Line 109 raising OSError: nothing catches it, the invocation ends.
ReportError(p) ==
    /\ pc[p] = "report"
    /\ prev' = EndRecord(p, "report_error")
    /\ Terminate(p)
    /\ UNCHANGED <<hashFile, xmlFile>>

\* Line 117: the invocation ends normally.
Exit(p) ==
    /\ pc[p] = "done"
    /\ prev' = EndRecord(p, "completed")
    /\ Terminate(p)
    /\ UNCHANGED <<hashFile, xmlFile>>

\* The text left in the store file when the process dies inside line 79, a
\* proper prefix of what json.dump would have written: the shortest (nothing
\* flushed yet) and the longest (all but the closing brace).
PartialWrites(p) ==
    LET full == json_dump(SavedMapping(p))
    IN  {SubSeq(full, 1, k) : k \in {0, Len(full) - 1}}

\* External termination of the process, at any point of the run.
Kill(p) ==
    /\ pc[p] \notin {"idle", "done"}
    /\ IF pc[p] = "dump"
       THEN \E text \in PartialWrites(p) : hashFile' = [exists |-> TRUE, text |-> text]
       ELSE hashFile' = hashFile
    /\ prev' = EndRecord(p, "killed")
    /\ Terminate(p)
    /\ UNCHANGED xmlFile

Step(p) ==
    \/ Load(p)
    \/ Fetch(p)
    \/ Classify(p)
    \/ HandleError(p)
    \/ Sleep(p)
    \/ SaveOpen(p)
    \/ SaveDump(p)
    \/ SaveError(p)
    \/ Report(p)
    \/ ReportError(p)
    \/ Exit(p)
    \/ Kill(p)

\* One invocation at a time, as started by an external scheduler.
Next == Step(1)

Spec == Init /\ [][Next]_vars

\* ------------------------------------------------- two concurrent invocations

\* A store left by an earlier run in which both targets returned the first body.
EarlierStore ==
    [exists |-> TRUE,
     text |-> json_dump([k \in 1..Len(MONITORED_URLS) |->
                           <<MONITORED_URLS[k].name, md5(BodyTable[1])>>])]

InitConc ==
    /\ hashFile \in {NoFile, EarlierStore}
    /\ xmlFile = NoReport
    /\ pc = [p \in Procs |-> "idle"]
    /\ last_hashes = [p \in Procs |-> <<>>]
    /\ current_hashes = [p \in Procs |-> <<>>]
    /\ changes_detected = [p \in Procs |-> <<>>]
    /\ idx = [p \in Procs |-> 1]
    /\ response = [p \in Procs |-> NoResponse]
    /\ storeAtStart = [p \in Procs |-> NoFile]
    /\ outcome = [p \in Procs |-> [n \in Names |-> NoOutcome]]
    /\ fetched = [p \in Procs |-> [n \in Names |-> NoBody]]
    /\ attempts = [p \in Procs |-> [n \in Names |-> 0]]
    /\ prev = NoRun("none")

\* One invocation run to its end, each statement a step of its own process.
Run(p) ==
    \/ Load(p)
    \/ Fetch(p)
    \/ Classify(p)
    \/ HandleError(p)
    \/ Sleep(p)
    \/ SaveOpen(p)
    \/ SaveDump(p)
    \/ Report(p)

\* Two invocations started against the same files, interleaved by the
\* operating system without any lock.
NextConc == \E p \in Procs : Run(p)

SpecConc == InitConc /\ [][NextConc]_vars

\* ==================================================================== claims

\* The entry of a dict for a name: present with a digest, or absent.
Entry(d, n) == IF Has(d, n) THEN <<TRUE, Get(d, n)>> ELSE <<FALSE, "">>

\* The hash store as persisted now, and as it was when invocation p started.
StoreNow == Loaded(hashFile)
StoreBefore(p) == Loaded(storeAtStart[p])

\* Target n was fetched successfully in the run of invocation p.
Succeeded(p, n) == fetched[p][n] # NoBody

IsErrorStatus(s) == \E e \in RequestExceptions : s = ErrorStatus(e)

\* The entries of the written report, and of the event list, that name n.
ReportItems(n) == {j \in 1..Len(xmlFile.items) : xmlFile.items[j].Name = n}
Events(p, n) == {j \in 1..Len(changes_detected[p]) : changes_detected[p][j].name = n}

\* The run of invocation p is complete: store saved and report written.
Done(p) == pc[p] = "done"

\* C1: after a run, a target whose fetch failed has the same entry in the
\* persisted hash store as before the run, and the report holds an Error event
\* for it.
C1_FailedFetchKeepsEntry ==
    \A p \in Procs : \A n \in Names :
        (Done(p) /\ outcome[p][n] = "Error") =>
            /\ Entry(StoreNow, n) = Entry(StoreBefore(p), n)
            /\ \E j \in ReportItems(n) : IsErrorStatus(xmlFile.items[j].Status)

\* C2: a target stored with digest d1, whose fetch failed in the previous run
\* and succeeds in this run with a digest other than d1, is classified Changed.
C2_ChangedAfterFailedRun ==
    \A p \in Procs : \A n \in Names :
        ( /\ Done(p)
          /\ prev.ended = "completed"
          /\ prev.outcome[n] = "Error"
          /\ Has(prev.loaded, n)
          /\ Succeeded(p, n)
          /\ md5(fetched[p][n]) # Get(prev.loaded, n) )
        => outcome[p][n] = "Changed"

\* C3: a target with no recorded digest at the start of a run and fetched
\* successfully is Initial; when the previous run classified it Initial and this
\* run fetches the same body, it is Unchanged, not Initial again.
C3_InitialExactlyOnce ==
    \A p \in Procs : \A n \in Names :
        /\ (Succeeded(p, n) /\ ~Has(StoreBefore(p), n)) => outcome[p][n] = "Initial"
        /\ ( /\ prev.ended = "completed"
             /\ prev.outcome[n] = "Initial"
             /\ Succeeded(p, n)
             /\ fetched[p][n] = prev.fetched[n] )
           => outcome[p][n] = "Unchanged"

\* A run completed after a run that classified a target Initial, with the same
\* body fetched again.
C3_Witness ==
    \E p \in Procs : \E n \in Names :
        /\ Done(p)
        /\ prev.ended = "completed"
        /\ prev.outcome[n] = "Initial"
        /\ fetched[p][n] = prev.fetched[n]
        /\ outcome[p][n] = "Unchanged"

\* C4: a target fetched with a digest different from the one stored at the
\* start of the run is classified Changed, with one Content Changed entry in
\* the report, and after the run the persisted digest is the new one.
C4_ChangedAndStored ==
    \A p \in Procs : \A n \in Names :
        ( /\ Done(p)
          /\ Succeeded(p, n)
          /\ Has(StoreBefore(p), n)
          /\ Get(StoreBefore(p), n) # md5(fetched[p][n]) )
        => /\ outcome[p][n] = "Changed"
           /\ Cardinality(ReportItems(n)) = 1
           /\ \A j \in ReportItems(n) : xmlFile.items[j].Status = StatusChanged
           /\ Entry(StoreNow, n) = <<TRUE, md5(fetched[p][n])>>

\* A completed run that found a stored digest replaced by a different one.
C4_Witness ==
    \E p \in Procs : \E n \in Names :
        /\ Done(p)
        /\ Succeeded(p, n)
        /\ Has(StoreBefore(p), n)
        /\ Get(StoreBefore(p), n) # md5(fetched[p][n])
        /\ outcome[p][n] = "Changed"
        /\ Get(StoreNow, n) = md5(fetched[p][n])

\* C5: a target fetched with the digest stored at the start of the run gets no
\* event, neither in the list nor in the report, and its persisted digest after
\* the run is the one before the run.
C5_UnchangedNoEvent ==
    \A p \in Procs : \A n \in Names :
        ( /\ Succeeded(p, n)
          /\ Has(StoreBefore(p), n)
          /\ Get(StoreBefore(p), n) = md5(fetched[p][n]) )
        => /\ outcome[p][n] = "Unchanged"
           /\ Events(p, n) = {}
           /\ Done(p) => /\ ReportItems(n) = {}
                         /\ Entry(StoreNow, n) = Entry(StoreBefore(p), n)

\* A completed run with one target unchanged while the other produced an event.
C5_Witness ==
    \E p \in Procs : \E n \in Names :
        /\ Done(p)
        /\ Succeeded(p, n)
        /\ Has(StoreBefore(p), n)
        /\ Get(StoreBefore(p), n) = md5(fetched[p][n])
        /\ xmlFile.items # <<>>
        /\ ReportItems(n) = {}

\* Every target was fetched successfully in the previous, completed run, and
\* in the run of invocation p with the same body.
SameBodiesTwice(p) ==
    /\ prev.ended = "completed"
    /\ \A n \in Names : prev.fetched[n] # NoBody /\ fetched[p][n] = prev.fetched[n]

\* C6: a run that follows a completed run, with every target fetched
\* successfully in both with the same body, classifies every target Unchanged,
\* reports no event and leaves the store file as the first run left it.
C6_Idempotent ==
    \A p \in Procs :
        (Done(p) /\ SameBodiesTwice(p)) =>
            /\ \A n \in Names : outcome[p][n] = "Unchanged"
            /\ changes_detected[p] = <<>>
            /\ xmlFile.items = <<>>
            /\ hashFile = storeAtStart[p]
            /\ Items(StoreNow) = Items(prev.hashes)

\* A second run with the same bodies has completed, after a first run that
\* did report events.
C6_Witness ==
    \E p \in Procs :
        /\ Done(p)
        /\ SameBodiesTwice(p)
        /\ \E n \in Names : prev.outcome[n] \in {"Initial", "Changed"}
        /\ hashFile.exists

\* C7: the mapping a run loads holds, for every target the previous completed
\* run fetched successfully, the digest that run computed, and nothing else.
C7_RoundTrip ==
    \A p \in Procs :
        (pc[p] # "idle" /\ prev.ended = "completed") =>
            /\ \A n \in Names :
                  prev.fetched[n] # NoBody =>
                      /\ Entry(last_hashes[p], n) = <<TRUE, md5(prev.fetched[n])>>
                      /\ Entry(last_hashes[p], n) = Entry(prev.hashes, n)
            /\ Items(last_hashes[p]) = Items(prev.hashes)

\* A run has loaded the two digests the previous run computed.
C7_Witness ==
    \E p \in Procs :
        /\ pc[p] = "fetch"
        /\ prev.ended = "completed"
        /\ \A n \in Names : prev.fetched[n] # NoBody
        /\ Len(last_hashes[p]) = Len(MONITORED_URLS)

\* C8: in a completed run in which a fetch failed, every target is classified,
\* a failed target is Error with one Error event and no computed digest
\* whatever the store held for it, and the store and the report written are
\* those of this run.
C8_FailureDoesNotAbort ==
    \A p \in Procs :
        /\ \A n \in Names :
              outcome[p][n] = "Error" =>
                  /\ ~Has(current_hashes[p], n)
                  /\ Cardinality(Events(p, n)) = 1
                  /\ \A j \in Events(p, n) : IsErrorStatus(changes_detected[p][j].status)
        /\ (Done(p) /\ \E n \in Names : outcome[p][n] = "Error") =>
              /\ \A m \in Names : outcome[p][m] # NoOutcome
              /\ \A m \in Names : outcome[p][m] # "Error" => Succeeded(p, m)
              /\ hashFile = [exists |-> TRUE, text |-> json_dump(current_hashes[p])]
              /\ xmlFile = generate_xml_report(changes_detected[p])

\* A completed run whose first target failed, although the store held a digest
\* for it, and whose second target was fetched and classified.
C8_Witness ==
    \E p \in Procs :
        /\ Done(p)
        /\ outcome[p][MONITORED_URLS[1].name] = "Error"
        /\ Has(StoreBefore(p), MONITORED_URLS[1].name)
        /\ outcome[p][MONITORED_URLS[2].name] \in {"Initial", "Changed", "Unchanged"}

\* A text that is not a JSON document: it lacks the closing brace.
Truncated(text) == text = <<>> \/ text[Len(text)] # RBRACE

\* The store file was missing, or not parseable, when invocation p started.
NoUsableStore(p) ==
    \/ ~storeAtStart[p].exists
    \/ Truncated(storeAtStart[p].text)

\* C9: a run that finds the store file missing or unparseable loads the empty
\* mapping, goes on, and classifies every target it fetches successfully
\* Initial, none Changed or Unchanged.
C9_NoHistoryOnBadStore ==
    \A p \in Procs :
        (pc[p] # "idle" /\ NoUsableStore(p)) =>
            /\ last_hashes[p] = <<>>
            /\ \A n \in Names :
                  /\ outcome[p][n] \notin {"Changed", "Unchanged"}
                  /\ Succeeded(p, n) => outcome[p][n] = "Initial"

\* A run that started on an existing but unparseable store file, holding a
\* member, has completed with a target classified Initial.
C9_Witness ==
    \E p \in Procs : \E n \in Names :
        /\ Done(p)
        /\ storeAtStart[p].exists
        /\ Len(storeAtStart[p].text) > 1
        /\ Truncated(storeAtStart[p].text)
        /\ outcome[p][n] = "Initial"

\* All targets of the run of invocation p have been processed.
AllProcessed(p) == \A n \in Names : outcome[p][n] # NoOutcome

\* C10: until its save step a run leaves the store file as it found it, so a
\* run that ends before its save leaves the pre-run store; the file changes
\* only in the save, after all targets have been processed, and the save runs
\* once.
C10_StoreUntouchedBeforeSave ==
    [][ \A p \in Procs :
          /\ Phase(p) = "before_save" /\ pc[p] # "save" => hashFile' = hashFile
          /\ Phase(p) = "before_save" => hashFile = storeAtStart[p]
          /\ (Phase(p) = "before_save" /\ pc'[p] = "idle")
                => hashFile' = storeAtStart[p]
          /\ (pc[p] # "idle" /\ hashFile' # hashFile)
                => /\ pc[p] \in {"save", "dump"}
                   /\ AllProcessed(p)
          /\ pc[p] \in {"report", "done"} => hashFile' = hashFile
      ]_vars

\* An invocation has processed all its targets and detected a change, its
\* save is still to come, and the store file holds the digests of the run
\* before: terminated here, it leaves them.
C10_Witness ==
    \E p \in Procs :
        /\ pc[p] = "save"
        /\ AllProcessed(p)
        /\ \E n \in Names : outcome[p][n] = "Changed"
        /\ ENABLED Kill(p)
        /\ hashFile = storeAtStart[p]
        /\ StoreNow # <<>>

\* The outcomes that produce an event.
Reportable == {"Initial", "Changed", "Error"}

\* The names of the targets, in declared order, whose outcome in the run of
\* invocation p produces an event.
ReportedOrder(p) ==
    LET sel == SelectSeq(MONITORED_URLS, LAMBDA t : outcome[p][t.name] \in Reportable)
    IN  [j \in 1..Len(sel) |-> sel[j].name]

\* C11: targets are processed in declared order, and the events of a run, in
\* the list and in the written report, are the declared-order sequence of the
\* targets without the Unchanged ones.
C11_DeclaredOrder ==
    \A p \in Procs :
        /\ \A k \in 1..Len(MONITORED_URLS) :
              outcome[p][MONITORED_URLS[k].name] # NoOutcome =>
                  /\ k <= idx[p]
                  /\ \A j \in 1..(k - 1) : outcome[p][MONITORED_URLS[j].name] # NoOutcome
        /\ [j \in 1..Len(changes_detected[p]) |-> changes_detected[p][j].name]
              = ReportedOrder(p)
        /\ Done(p) =>
              [j \in 1..Len(xmlFile.items) |-> xmlFile.items[j].Name] = ReportedOrder(p)

\* A completed run whose report holds an event for each of the two targets.
C11_Witness ==
    \E p \in Procs :
        /\ Done(p)
        /\ Len(xmlFile.items) = 2
        /\ xmlFile.items[1].Name = MONITORED_URLS[1].name
        /\ xmlFile.items[2].Name = MONITORED_URLS[2].name

\* The targets fetched successfully in the run of invocation p, each with the
\* digest of the body fetched.
DigestsOfRun(p) == {<<n, md5(fetched[p][n])>> : n \in {m \in Names : Succeeded(p, m)}}

\* C12: after a completed run the persisted store holds exactly the targets
\* fetched successfully in that run, each with the digest computed in that run:
\* an entry of the previous store for a target that failed is not carried over.
\* Between runs the store holds what the last run that saved had fetched, so a
\* target that fails in every run is never in it.
C12_StoreIsThisRunsSuccesses ==
    /\ \A p \in Procs :
          Done(p) =>
              /\ hashFile.exists /\ json_load(hashFile.text).ok
              /\ Items(StoreNow) = DigestsOfRun(p)
              /\ Keys(StoreNow) = {n \in Names : outcome[p][n] \in {"Initial", "Changed", "Unchanged"}}
              /\ \A n \in Names : outcome[p][n] = "Error" => ~Has(StoreNow, n)
    /\ \A n \in Names :
          Has(StoreNow, n) =>
              \/ prev.fetched[n] # NoBody
              \/ \E p \in Procs : Succeeded(p, n) /\ Phase(p) = "after_save"

\* A completed run in which a target failed whose digest the store held before:
\* the store no longer holds it.
C12_Witness ==
    \E p \in Procs : \E n \in Names :
        /\ Done(p)
        /\ outcome[p][n] = "Error"
        /\ Has(StoreBefore(p), n)
        /\ ~Has(StoreNow, n)
        /\ StoreNow # <<>>

\* The store file holds exactly the digests invocation p computed.
SavedByRun(p) == hashFile = [exists |-> TRUE, text |-> json_dump(current_hashes[p])]

\* C13: the report is written only by a run whose save is complete; a run
\* whose save fails ends there and writes no report; a run whose report write
\* fails ends there with the new digests already in the store, its events in
\* no report, and the next run, fetching the same bodies, classifies those
\* targets Unchanged and has no event for them either.
C13_SaveBeforeReport ==
    [][ \A p \in Procs :
          /\ (pc[p] # "idle" /\ xmlFile' # xmlFile) => (pc[p] = "report" /\ SavedByRun(p))
          /\ pc[p] = "save" => pc'[p] \in {"save", "dump", "idle"}
          /\ (pc[p] = "save" /\ pc'[p] = "idle") =>
                (xmlFile' = xmlFile /\ hashFile' = hashFile)
          /\ pc[p] = "report" => pc'[p] \in {"report", "done", "idle"}
          /\ (pc[p] = "report" /\ pc'[p] = "idle") =>
                /\ xmlFile' = xmlFile
                /\ hashFile' = hashFile
                /\ SavedByRun(p)
                /\ Items(Loaded(hashFile')) = DigestsOfRun(p)
          /\ prev.ended = "report_error" =>
                \A n \in Names :
                    (prev.fetched[n] # NoBody /\ fetched[p][n] = prev.fetched[n]) =>
                        /\ outcome[p][n] = "Unchanged"
                        /\ Events(p, n) = {}
                        /\ Done(p) => ReportItems(n) = {}
      ]_vars

\* A run has completed after a run whose report write failed with Initial or
\* Changed events unreported: it fetched the same bodies and reports nothing.
C13_Witness ==
    \E p \in Procs :
        /\ Done(p)
        /\ prev.ended = "report_error"
        /\ prev.unreported
        /\ \A n \in Names : prev.fetched[n] # NoBody /\ fetched[p][n] = prev.fetched[n]
        /\ xmlFile.items = <<>>

Outcomes == {"Initial", "Changed", "Unchanged", "Error"}

UnchangedCount(p) == Cardinality({n \in Names : outcome[p][n] = "Unchanged"})

\* C14: within one invocation every configured target is requested exactly
\* once (no retry after a failure), its attempt ends in exactly one of
\* Initial, Changed, Unchanged or Error, it contributes at most one event, and
\* the number of events of a finished run is the number of targets minus the
\* number classified Unchanged.
C14_OneAttemptOneOutcome ==
    \A p \in Procs :
        /\ \A n \in Names :
              /\ attempts[p][n] <= 1
              /\ outcome[p][n] # NoOutcome => (attempts[p][n] = 1 /\ outcome[p][n] \in Outcomes)
              /\ Cardinality(Events(p, n)) <= 1
              /\ Cardinality({j \in 1..Len(changes_detected[p]) :
                                 changes_detected[p][j].name = n}) <= 1
        /\ Done(p) =>
              /\ \A n \in Names : attempts[p][n] = 1 /\ outcome[p][n] \in Outcomes
              /\ Len(changes_detected[p]) = Len(MONITORED_URLS) - UnchangedCount(p)
              /\ Len(xmlFile.items) = Len(MONITORED_URLS) - UnchangedCount(p)

C14_Witness ==
    \E p \in Procs :
        /\ Done(p)
        /\ outcome[p][MONITORED_URLS[1].name] = "Error"
        /\ outcome[p][MONITORED_URLS[2].name] = "Unchanged"
        /\ Len(xmlFile.items) = 1

NoChangesText == "No changes detected since the last run."

CountText(k) == ToString(k) \o " Change(s) or Initial Check(s) Detected."

\* C15: the root status of a written report is the "no changes" text exactly
\* when the report has no ChangeItem entries; otherwise it states a count equal
\* to the number of ChangeItem entries, and that count includes Error events
\* as well as Initial and Changed ones.
C15_StatusCountsAllEvents ==
    /\ xmlFile.exists =>
          /\ (xmlFile.status = NoChangesText) <=> (xmlFile.items = <<>>)
          /\ xmlFile.items # <<>> => xmlFile.status = CountText(Len(xmlFile.items))
    /\ \A p \in Procs : Done(p) =>
          /\ xmlFile.exists
          /\ Len(xmlFile.items) = Cardinality({n \in Names : outcome[p][n] \in Reportable})
          /\ xmlFile.status =
                IF \A n \in Names : outcome[p][n] = "Unchanged"
                THEN NoChangesText
                ELSE CountText(Cardinality({n \in Names : outcome[p][n] \in Reportable}))

C15_Witness ==
    \E p \in Procs :
        /\ Done(p)
        /\ outcome[p][MONITORED_URLS[1].name] = "Changed"
        /\ outcome[p][MONITORED_URLS[2].name] = "Error"
        /\ xmlFile.status = CountText(2)
        /\ \E j \in 1..Len(xmlFile.items) : IsErrorStatus(xmlFile.items[j].Status)

Saves(p) == pc[p] = "dump" /\ pc'[p] = "report"

Other(p) == CHOOSE q \in Procs : q # p

BothDone == \A p \in Procs : Done(p)

\* C16 as stated: with two concurrent invocations, every save leaves the store
\* holding exactly the mapping of the invocation that saves, so the final
\* store is the mapping of whichever invocation saves last.
C16_LastWriterWins ==
    [][ \A p \in Procs : Saves(p) =>
            hashFile' = [exists |-> TRUE, text |-> json_dump(current_hashes[p])] ]_vars

SameEventInBoth(n) ==
    \E j \in 1..Len(changes_detected[1]), k \in 1..Len(changes_detected[2]) :
        /\ changes_detected[1][j].name = n
        /\ changes_detected[2][k] = changes_detected[1][j]
        /\ changes_detected[1][j].status \in {StatusInitial, StatusChanged}

\* C16 (amended): with two concurrent invocations the store changes only when
\* an invocation opens it for writing (emptying it) or saves.  A save leaves
\* exactly the saving invocation's mapping, losing the other's digests,
\* whenever the file is still empty at the write or the other invocation's
\* saved text is not longer in bytes (in particular when both computed the
\* same set of targets).  When the other invocation saved a longer text after
\* the saver opened the file, the file holds the saver's text followed by the
\* rest of the other's text and no longer parses as a store.
C16_LastSaveOverlays ==
    [][ /\ hashFile' # hashFile => \E p \in Procs : pc[p] = "save" \/ Saves(p)
        /\ \A p \in Procs : Saves(p) =>
              LET q    == Other(p)
                  mine == json_dump(current_hashes[p])
                  hers == json_dump(current_hashes[q])
              IN  /\ hashFile.text # <<>> =>
                        (hashFile.text = hers /\ pc[q] \in {"report", "done"})
                  /\ hashFile'.exists
                  /\ SubSeq(hashFile'.text, 1, Len(mine)) = mine
                  /\ IF hashFile.text = <<>> \/ ByteLen(hers) <= ByteLen(mine)
                     THEN /\ hashFile'.text = mine
                          /\ Loaded(hashFile') = current_hashes[p]
                     ELSE /\ Len(hashFile'.text) > Len(mine)
                          /\ ByteLen(hashFile'.text) = ByteLen(hers)
                          /\ ~json_load(hashFile'.text).ok
                  /\ (Keys(current_hashes[q]) = Keys(current_hashes[p])) =>
                        hashFile'.text = mine
      ]_vars

C16_Witness ==
    /\ BothDone
    /\ xmlFile.exists
    /\ hashFile.exists
    /\ ~json_load(hashFile.text).ok
    /\ \E p \in Procs :
          /\ SubSeq(hashFile.text, 1, Len(json_dump(current_hashes[p])))
                = json_dump(current_hashes[p])
          /\ Len(current_hashes[p]) < Len(current_hashes[Other(p)])
    /\ \E n \in Names : SameEventInBoth(n)

====
